---- MODULE Spec2Model ----
(***************************************************************************)
(* A model of the Messenger webhook bot of src/app.js: the signature       *)
(* verifier run by the JSON body parser, the POST /webhook dispatcher, the *)
(* event handlers, the message builders and the Send API client.           *)
(*                                                                         *)
(* JavaScript values are modelled as follows.  An optional value is a      *)
(* sequence of length at most one: <<>> is undefined, <<v>> is v.  A header *)
(* string is a sequence of one-character strings, so that split('=') is    *)
(* computed character by character.  A field of a messaging event that     *)
(* holds a JSON object (optin, message, delivery, postback, read,          *)
(* account_linking, quick_reply) or an array (attachments) is modelled by  *)
(* its presence, since the code tests only its truthiness.  Node runs each *)
(* handler to completion, so a request is handled in one step; the Send    *)
(* API completion callbacks run later, one step each.                      *)
(***************************************************************************)
EXTENDS Integers, Sequences, FiniteSets, TLC

VARIABLES
  alive,     \* the Node process is running
  served,    \* number of POST /webhook requests received so far
  handled,   \* the request handled last and what handling it did
  pending,   \* pending[n]: Send API calls of request n whose callback has not run
  rejected,  \* the requests the verifier has rejected
  vcall,     \* one call of verifyRequestSignature: its inputs and outcome
  gcall      \* one GET /webhook: its query and the responses written for it

vars == <<alive, served, handled, pending, rejected, vcall, gcall>>

(***************************************************************************)
(* Bounds of the model.                                                    *)
(***************************************************************************)
\* events of an envelope that batches several events
MaxEvents == 2
\* requests received in one behaviour
MaxRequests == 2
\* hex characters of a digest (40 for SHA-1)
DigestLen == 2

(***************************************************************************)
(* Configuration (src/app.js 34-52).                                       *)
(***************************************************************************)
APP_SECRET == 7

VALIDATION_TOKEN == "T1"

SERVER_URL == "https://bot.example"

\* Math.random() yields k / RandDenom for some k in 0 .. RandDenom - 1
RandDenom == 1000

\* the least and the greatest value Math.random() can return
RandSamples == {0, RandDenom - 1}

(***************************************************************************)
(* Signature verification.                                                 *)
(***************************************************************************)
HexChars == <<"0", "1", "2", "3", "4", "5", "6", "7",
              "8", "9", "a", "b", "c", "d", "e", "f">>

RECURSIVE Pow16(_)
Pow16(n) == IF n = 0 THEN 1 ELSE 16 * Pow16(n - 1)

\* n written with `len` lowercase hex digits, most significant first
RECURSIVE ToHex(_, _)
ToHex(n, len) ==
  IF len = 0 THEN <<>>
  ELSE Append(ToHex(n \div 16, len - 1), HexChars[(n % 16) + 1])

\* the keyed digest state after absorbing the bytes of buf
RECURSIVE HmacUpdate(_, _, _)
HmacUpdate(key, h, buf) ==
  IF buf = <<>> THEN h
  ELSE HmacUpdate(key, (h * 31 + Head(buf) + key) % Pow16(DigestLen), Tail(buf))

\* crypto.createHmac('sha1', key).update(buf).digest('hex')
HmacSha1Hex(key, buf) ==
  ToHex(HmacUpdate(key, (key * 17 + 5) % Pow16(DigestLen), buf), DigestLen)

\* String.prototype.split for a one-character separator
RECURSIVE SplitFrom(_, _, _, _)
SplitFrom(s, sep, i, cur) ==
  IF i > Len(s) THEN <<cur>>
  ELSE IF s[i] = sep THEN <<cur>> \o SplitFrom(s, sep, i + 1, <<>>)
  ELSE SplitFrom(s, sep, i + 1, Append(cur, s[i]))

Split(s, sep) == SplitFrom(s, sep, 1, <<>>)

\* a[i] of a JavaScript array (0-based): undefined past the end
At(a, i) == IF i + 1 \in DOMAIN a THEN <<a[i + 1]>> ELSE <<>>

\* !v for an optional header string: undefined and "" are falsy
Falsy(v) == v = <<>> \/ v = << <<>> >>

\* !v for an optional text: undefined and "" are falsy
FalsyText(v) == v = <<>> \/ v = <<"">>

MutVerifyNeverThrows(signature, buf) ==
  IF Falsy(signature) THEN "logged" ELSE "pass"

MutVerifyThrowsWhenAbsent(signature, buf) ==
  IF Falsy(signature) THEN "throw"
  ELSE IF At(Split(signature[1], "="), 1) # <<HmacSha1Hex(APP_SECRET, buf)>>
       THEN "throw" ELSE "pass"

MutVerifyChecksMethod(signature, buf) ==
  IF Falsy(signature) THEN "logged"
  ELSE LET elements == Split(signature[1], "=")
       IN IF At(elements, 0) # << <<"s", "h", "a", "1">> >> THEN "throw"
          ELSE IF At(elements, 1) # <<HmacSha1Hex(APP_SECRET, buf)>>
               THEN "throw" ELSE "pass"

\* "logged": no header, an error is logged and the request goes on;
\* "throw": the Error of line 170; "pass": the digests are equal
verifyRequestSignature(signature, buf) ==
  IF Falsy(signature) THEN "logged"
  ELSE LET elements == Split(signature[1], "=")
           method == At(elements, 0)
           signatureHash == At(elements, 1)
           expectedHash == <<HmacSha1Hex(APP_SECRET, buf)>>
       IN IF signatureHash # expectedHash THEN "throw" ELSE "pass"

(***************************************************************************)
(* The fact table of getRandomFact (src/app.js 518-652), in source order;  *)
(* the seven non-ASCII characters of the source are written in ASCII.      *)
(***************************************************************************)
facts ==
  <<
     "Every year, nearly four million cats are eaten in Asia",
     "On average, cats spend 2/3 of every day sleeping",
     "Unlike dogs, cats do not have a sweet tooth",
     "When a cat chases its prey, it keeps its head level",
     "The technical term for a cat's hairball is a bezoar",
     "A group of cats is called a clowder",
     "Female cats tend to be right pawed, while male cats are more often left pawed",
     "A cat cannot climb head first down a tree because its claws are curved the wrong way",
     "Cats make about 100 different sounds",
     "A cat's brain is biologically more similar to a human brain than it is to a dog's",
     "There are more than 500 million domestic cats in the world",
     "Approximately 24 cat skins can make a coat",
     "During the Middle Ages, cats were associated with witchcraft",
     "Cats are the most popular pet in North American Cats are North America's most popular pets",
     "Approximately 40,000 people are bitten by cats in the U.S.",
     "A cat's hearing is better than a dog's",
     "A cat can travel at a top speed of approximately 31 mph (49 km) over a short distance",
     "A cat can jump up to five times its own height in a single bound",
     "Some cats have survived falls of over 20 meters",
     "Researchers are unsure exactly how a cat purrs",
     "When a family cat died in ancient Egypt, family members would mourn by shaving off their eyebrows",
     "In 1888, more than 300,000 mummified cats were found an Egyptian cemetery",
     "Most cats give birth to a litter of between one and nine kittens",
     "Smuggling a cat out of ancient Egypt was punishable by death",
     "The earliest ancestor of the modern cat lived about 30 million years ago",
     "The biggest wildcat today is the Siberian Tiger",
     "The smallest wildcat today is the Black-footed cat",
     "Many Egyptians worshipped the goddess Bast, who had a woman's body and a cat's head",
     "Mohammed loved cats and reportedly his favorite cat, Muezza, was a tabby",
     "The smallest pedigreed cat is a Singapura, which can weigh just 4 lbs",
     "Cats hate the water because their fur does not insulate well when it's wet",
     "The Egyptian Mau is probably the oldest breed of cat",
     "A cat usually has about 12 whiskers on each side of its face",
     "A cat's eyesight is both better and worse than humans",
     "A cat's jaw can't move sideways, so a cat can't chew large chunks of food",
     "A cat almost never meows at another cat, mostly just humans",
     "A cat's back is extremely flexible because it has up to 53 loosely fitting vertebrae",
     "Many cat owners think their cats can read their minds",
     "Two members of the cat family are distinct from all others: the clouded leopard and the cheetah",
     "In Japan, cats are thought to have the power to turn into super spirits when they die",
     "Most cats had short hair until about 100 years ago, when it became fashionable to own cats and experiment with breeding",
     "Cats have 32 muscles that control the outer ear",
     "Cats have about 20,155 hairs per square centimeter",
     "The first cat show was organized in 1871 in London",
     "A cat has 230 bones in its body",
     "Foods that should not be given to cats include onions, garlic, green tomatoes, raw potatoes, chocolate, grapes, and raisins",
     "A cat's heart beats nearly twice as fast as a human heart",
     "Cats spend nearly 1/3 of their waking hours cleaning themselves",
     "Grown cats have 30 teeth",
     "The largest cat breed is the Ragdoll",
     "Cats are extremely sensitive to vibrations",
     "The cat who holds the record for the longest non-fatal fall is Andy",
     "The richest cat is Blackie who was left GBP 15 million by his owner, Ben Rea",
     "Around the world, cats take a break to nap -a catnap- 425 million times a day",
     "In homes with more than one cat, it is best to have cats of the opposite sex. They tend to be better housemates.",
     "Cats are unable to detect sweetness in anything they taste",
     "Perhaps the oldest cat breed on record is the Egyptian Mau, which is also the Egyptian language's word for cat",
     "In one litter of kittens, there could be multiple father cats",
     "Teeth of cats are sharper when they're kittens. After six months, they lose their needle-sharp milk teeth",
     "Collectively, kittens yawn about 200 million time per hour",
     "According to the International Species Information Service, there are only three Marbled Cats still in existence worldwide.  One lives in the United States.",
     "Cats show affection and mark their territory by rubbing on people. Glands on their face, tail and paws release a scent to make its mark",
     "Maine Coons are the most massive breed of house cats. They can weigh up to around 24 pounds",
     "If you killed a cat in the ages of Pharaoh, you could've been put to death",
     "Most cats will eat 7 to 20 small meals a day. This interesting fact is brought to you by Nature's Recipe(R)",
     "Most cats don't have eyelashes",
     "Call them wide-eyes: cats are the mammals with the largest eyes",
     "Cats who eat too much tuna can become addicted, which can actually cause a Vitamin E deficiency",
     "Cats can pick up on your tone of voice, so sweet-talking to your cat has more of an impact than you think",
     "Some cats can survive falls from as high up as 65 feet or more",
     "Genetically, cats' brains are more similar to that of a human than a dog's brain",
     "If your cat's eyes are closed, it's not necessarily because it's tired. A sign of closed eyes means your cat is happy or pleased",
     "Cats CAN be lefties and righties, just like us. More than forty percent of them are, leaving some ambidextrous",
     "Cats have the skillset that makes them able to learn how to use a toilet",
     "Each side of a cat's face has about 12 whiskers",
     "Landing on all fours is something typical to cats thanks to the help of their eyes and special balance organs in their inner ear. These tools help them straighten themselves in the air and land upright on the ground.",
     "Eating grass rids a cats' system of any fur and helps with digestion",
     "Cats have 24 more bones than humans",
     "Black cats aren't an omen of ill fortune in all cultures. In the UK and Australia, spotting a black cat is good luck",
     "The Maine Coon is appropriately the official State cat of its namesake state",
     "The world's most fertile cat, whose name was Dusty, gave birth to 420 kittens in her lifetime",
     "Sometimes called the Canadian Hairless, the Sphynx is the first cat breed that has lasted this long-the breed has been around since 1966",
     "Sir Isaac Newton, among his many achievements, invented the cat flap door",
     "In North America, cats are a more popular pet than dogs. Nearly 73 million cats and 63 million dogs are kept as household pets",
     "Today, cats are living twice as long as they did just 50 years ago",
     "Outdoor cats' lifespan averages at about 3 to 5 years; indoor cats have lives that last 16 years or more",
     "Cats have the cognitive ability to sense a human's feelings and overall mood",
     "Cats prefer their food at room temperature-not too hot, not too cold",
     "Bobtails are known to have notably short tails -- about half or a third the size of the average cat",
     "A fingerprint is to a human as a nose is to a cat",
     "Cats have over 100 sounds in their vocal repertoire, while dogs only have 10",
     "Cats came to the Americas from Europe as pest controllers in the 1750s",
     "According to the Association for Pet Obesity Prevention (APOP), about 50 million of our cats are overweight",
     "Cats use their whiskers to measure openings, indicate mood and general navigation",
     "Blue-eyed cats have a high tendency to be deaf, but not all cats with blue eyes are deaf",
     "Ancient Egyptians first adored cats for their finesse in killing rodents-as far back as 4,000 years ago",
     "The color of York Chocolates becomes richer with age. Kittens are born with a lighter coat than the adults",
     "Because of widespread cat smuggling in ancient Egypt, the exportation of cats was a crime punishable by death",
     "Cats actually have dreams, just like us. They start dreaming when they reach a week old",
     "It is important to include fat in your cat's diet because they're unable to make the nutrient in their bodies on their own",
     "A cat's field of vision does not cover the area right under its nose",
     "Talk about Facetime: Cats greet one another by rubbing their noses together",
     "Cats sleep 16 hours of any given day",
     "Although it is known to be the tailless cat, the Manx can be born with a stub or a short tail",
     "A Selkirk slowly loses its naturally-born curly coat, but it grows again when the cat is around 8 months",
     "A cat's heart beats almost double the rate of a human heart, from 110 to 140 beats per minute",
     "Ragdoll cats live up to their name: they will literally go limp, with relaxed muscles, when lifted by a human",
     "Unlike most other cats, the Turkish Van breed has a water-resistant coat and enjoys being in water",
     "Webbed feet on a cat? The Peterbald's got 'em! They make it easy for the cat to get a good grip on things with skill",
     "Despite appearing like a wild cat, the Ocicat does not have an ounce of wild blood",
     "Cat's back claws aren't as sharp as the claws on their front paws",
     "A group of kittens is called a kindle, and clowder is a term that refers to a group of adult cats",
     "A third of cats' time spent awake is usually spent cleaning themselves",
     "A female cat is also known to be called a queen or a molly",
     "Want to call a hairball by its scientific name? Next time, say the word bezoar",
     "Cats have a 5 toes on their front paws and 4 on each back paw",
     "In multi-pet households, cats are able to get along especially well with dogs if they're introduced when the cat is under 6 months old and the dog is under one year old",
     "Twenty-five percent of cat owners use a blow drier on their cats after bathing",
     "Rather than nine months, cats' pregnancies last about nine weeks",
     "It has been said that the Ukrainian Levkoy has the appearance of a dog, due to the angles of its face",
     "A cat can reach up to five times its own height per jump",
     "Cats have a strong aversion to anything citrus",
     "Cats would rather starve themselves than eat something they don't like. This means they will refuse an unpalatable -- but nutritionally complete -- food for a prolonged period",
     "The Snow Leopard, a variety of the California Spangled Cat, always has blue eyes",
     "The two outer layers of a cat's hair are called, respectively, the guard hair and the awn hair",
     "When a household cat died in ancient Egypt, its owners showed their grief by shaving their eyebrows",
     "Caution during Christmas: poinsettias may be festive, but they're poisonous to cats",
     "Most kittens are born with blue eyes, which then turn color with age",
     "A cat's meow is usually not directed at another cat, but at a human. To communicate with other cats, they will usually hiss, purr and spit.",
     "According to the Guinness World Records, the largest domestic cat litter totaled at 19 kittens, four of them stillborn",
     "As temperatures rise, so do the number of cats. Cats are known to breed in warm weather, which leads many animal advocates worried about the plight of cats under Global Warming.",
     "Cats' rough tongues enable them to clean themselves efficiently and to lick clean an animal bone",
     "Most cat litters contain four to six kittens"
  >>

\* facts[randomnumber]: undefined when the index is outside the table
getRandomFact(r) ==
  LET randomnumber == ((r * ((Len(facts) - 1) - 0 + 1)) \div RandDenom) + 0
  IN At(facts, randomnumber)

(***************************************************************************)
(* Outbound messages.  messageData is recorded with the builder that made  *)
(* it; `kind` is message.attachment.type, "text" or "sender_action";       *)
(* `detail` is the text, the asset URL, the template_type or the action;   *)
(* `order` is the number in the receipt's order_number.                    *)
(***************************************************************************)
MessageData(recipientId, builder, kind, detail, order) ==
  [recipient |-> recipientId, builder |-> builder, kind |-> kind,
   detail |-> detail, order |-> order]

sendImageMessage(recipientId) ==
  MessageData(recipientId, "sendImageMessage", "image",
              <<SERVER_URL \o "/assets/rift.png">>, <<>>)

sendGifMessage(recipientId) ==
  MessageData(recipientId, "sendGifMessage", "image",
              <<SERVER_URL \o "/assets/instagram_logo.gif">>, <<>>)

sendAudioMessage(recipientId) ==
  MessageData(recipientId, "sendAudioMessage", "audio",
              <<SERVER_URL \o "/assets/sample.mp3">>, <<>>)

sendVideoMessage(recipientId) ==
  MessageData(recipientId, "sendVideoMessage", "video",
              <<SERVER_URL \o "/assets/allofus480.mov">>, <<>>)

sendFileMessage(recipientId) ==
  MessageData(recipientId, "sendFileMessage", "file",
              <<SERVER_URL \o "/assets/test.txt">>, <<>>)

MutTextEchoesInput(recipientId, messageText, r) ==
  MessageData(recipientId, "sendTextMessage", "text", <<messageText>>, <<>>)

\* messageText is not used: the text is getRandomFact()
sendTextMessage(recipientId, messageText, r) ==
  MessageData(recipientId, "sendTextMessage", "text", getRandomFact(r), <<>>)

sendButtonMessage(recipientId) ==
  MessageData(recipientId, "sendButtonMessage", "template", <<"button">>, <<>>)

sendGenericMessage(recipientId) ==
  MessageData(recipientId, "sendGenericMessage", "template", <<"generic">>, <<>>)

\* receiptId = "order" + Math.floor(Math.random()*1000)
sendReceiptMessage(recipientId, r) ==
  MessageData(recipientId, "sendReceiptMessage", "template", <<"receipt">>,
              <<(r * 1000) \div RandDenom>>)

sendQuickReply(recipientId) ==
  MessageData(recipientId, "sendQuickReply", "text",
              <<"What's your favorite movie genre?">>, <<>>)

sendReadReceipt(recipientId) ==
  MessageData(recipientId, "sendReadReceipt", "sender_action", <<"mark_seen">>, <<>>)

sendTypingOn(recipientId) ==
  MessageData(recipientId, "sendTypingOn", "sender_action", <<"typing_on">>, <<>>)

sendTypingOff(recipientId) ==
  MessageData(recipientId, "sendTypingOff", "sender_action", <<"typing_off">>, <<>>)

sendAccountLinking(recipientId) ==
  MessageData(recipientId, "sendAccountLinking", "template", <<"button">>, <<>>)

(***************************************************************************)
(* Event handlers.  A handler yields the Send API calls it made, in order, *)
(* and whether it threw.  Every handler first reads event.sender.id and    *)
(* event.recipient.id, a TypeError when either object is missing.          *)
(***************************************************************************)
Returned(calls) == [threw |-> FALSE, sends |-> calls]

Thrown == [threw |-> TRUE, sends |-> <<>>]

NoIds(event) == event.sender = <<>> \/ event.recipient = <<>>

receivedAuthentication(event, r) ==
  IF NoIds(event) THEN Thrown
  ELSE LET senderID == event.sender[1]
       IN Returned(<<sendTextMessage(senderID, "Authentication successful", r)>>)

MutKeywordsSwapped(senderID, messageText, r) ==
  CASE messageText = "image" -> sendGifMessage(senderID)
    [] messageText = "gif" -> sendImageMessage(senderID)
    [] messageText = "audio" -> sendAudioMessage(senderID)
    [] messageText = "video" -> sendVideoMessage(senderID)
    [] messageText = "file" -> sendFileMessage(senderID)
    [] messageText = "button" -> sendButtonMessage(senderID)
    [] messageText = "generic" -> sendGenericMessage(senderID)
    [] messageText = "receipt" -> sendReceiptMessage(senderID, r)
    [] messageText = "quick reply" -> sendQuickReply(senderID)
    [] messageText = "read receipt" -> sendReadReceipt(senderID)
    [] messageText = "typing on" -> sendTypingOn(senderID)
    [] messageText = "typing off" -> sendTypingOff(senderID)
    [] messageText = "account linking" -> sendAccountLinking(senderID)
    [] OTHER -> sendTextMessage(senderID, messageText, r)

\* the switch of lines 257-312
KeywordReply(senderID, messageText, r) ==
  CASE messageText = "image" -> sendImageMessage(senderID)
    [] messageText = "gif" -> sendGifMessage(senderID)
    [] messageText = "audio" -> sendAudioMessage(senderID)
    [] messageText = "video" -> sendVideoMessage(senderID)
    [] messageText = "file" -> sendFileMessage(senderID)
    [] messageText = "button" -> sendButtonMessage(senderID)
    [] messageText = "generic" -> sendGenericMessage(senderID)
    [] messageText = "receipt" -> sendReceiptMessage(senderID, r)
    [] messageText = "quick reply" -> sendQuickReply(senderID)
    [] messageText = "read receipt" -> sendReadReceipt(senderID)
    [] messageText = "typing on" -> sendTypingOn(senderID)
    [] messageText = "typing off" -> sendTypingOff(senderID)
    [] messageText = "account linking" -> sendAccountLinking(senderID)
    [] OTHER -> sendTextMessage(senderID, messageText, r)

MutMessageRepliesToEcho(event, r) ==
  IF NoIds(event) THEN Thrown
  ELSE LET senderID == event.sender[1]
           message == event.message[1]
       IN IF message.quick_reply
          THEN Returned(<<sendTextMessage(senderID, "Quick reply tapped", r)>>)
          ELSE IF ~FalsyText(message.text)
          THEN Returned(<<KeywordReply(senderID, message.text[1], r)>>)
          ELSE IF message.attachments
          THEN Returned(<<sendTextMessage(senderID,
                                          "Message with attachment received", r)>>)
          ELSE Returned(<<>>)

receivedMessage(event, r) ==
  IF NoIds(event) THEN Thrown
  ELSE LET senderID == event.sender[1]
           message == event.message[1]
           isEcho == message.is_echo
           messageText == message.text
           messageAttachments == message.attachments
           quickReply == message.quick_reply
       IN IF isEcho THEN Returned(<<>>)
          ELSE IF quickReply
          THEN Returned(<<sendTextMessage(senderID, "Quick reply tapped", r)>>)
          ELSE IF ~FalsyText(messageText)
          THEN Returned(<<KeywordReply(senderID, messageText[1], r)>>)
          ELSE IF messageAttachments
          THEN Returned(<<sendTextMessage(senderID,
                                          "Message with attachment received", r)>>)
          ELSE Returned(<<>>)

receivedDeliveryConfirmation(event) ==
  IF NoIds(event) THEN Thrown ELSE Returned(<<>>)

MutPostbackAnswersPage(event, r) ==
  IF NoIds(event) THEN Thrown
  ELSE LET recipientID == event.recipient[1]
       IN Returned(<<sendTextMessage(recipientID, "Postback called", r)>>)

receivedPostback(event, r) ==
  IF NoIds(event) THEN Thrown
  ELSE LET senderID == event.sender[1]
       IN Returned(<<sendTextMessage(senderID, "Postback called", r)>>)

MutReadIsAnswered(event) ==
  IF NoIds(event) THEN Thrown
  ELSE LET senderID == event.sender[1]
       IN Returned(<<sendTextMessage(senderID, "Message read", 0)>>)

receivedMessageRead(event) ==
  IF NoIds(event) THEN Thrown ELSE Returned(<<>>)

receivedAccountLink(event) ==
  IF NoIds(event) THEN Thrown ELSE Returned(<<>>)

(***************************************************************************)
(* The POST /webhook dispatcher.                                           *)
(***************************************************************************)
MutRouteMessageFirst(messagingEvent) ==
  IF messagingEvent.message # <<>> THEN "receivedMessage"
  ELSE IF messagingEvent.optin THEN "receivedAuthentication"
  ELSE IF messagingEvent.delivery THEN "receivedDeliveryConfirmation"
  ELSE IF messagingEvent.postback THEN "receivedPostback"
  ELSE IF messagingEvent.read THEN "receivedMessageRead"
  ELSE IF messagingEvent.account_linking THEN "receivedAccountLink"
  ELSE "unknown"

\* the if / else if chain of lines 96-110: the handler an event goes to
Route(messagingEvent) ==
  IF messagingEvent.optin THEN "receivedAuthentication"
  ELSE IF messagingEvent.message # <<>> THEN "receivedMessage"
  ELSE IF messagingEvent.delivery THEN "receivedDeliveryConfirmation"
  ELSE IF messagingEvent.postback THEN "receivedPostback"
  ELSE IF messagingEvent.read THEN "receivedMessageRead"
  ELSE IF messagingEvent.account_linking THEN "receivedAccountLink"
  ELSE "unknown"

MutUnknownEventThrows(handler, messagingEvent, r) ==
  CASE handler = "receivedAuthentication" -> receivedAuthentication(messagingEvent, r)
    [] handler = "receivedMessage" -> receivedMessage(messagingEvent, r)
    [] handler = "receivedDeliveryConfirmation" ->
         receivedDeliveryConfirmation(messagingEvent)
    [] handler = "receivedPostback" -> receivedPostback(messagingEvent, r)
    [] handler = "receivedMessageRead" -> receivedMessageRead(messagingEvent)
    [] handler = "receivedAccountLink" -> receivedAccountLink(messagingEvent)
    [] OTHER -> Thrown

\* the call made in the chosen branch; the last branch only logs
Invoke(handler, messagingEvent, r) ==
  CASE handler = "receivedAuthentication" -> receivedAuthentication(messagingEvent, r)
    [] handler = "receivedMessage" -> receivedMessage(messagingEvent, r)
    [] handler = "receivedDeliveryConfirmation" ->
         receivedDeliveryConfirmation(messagingEvent)
    [] handler = "receivedPostback" -> receivedPostback(messagingEvent, r)
    [] handler = "receivedMessageRead" -> receivedMessageRead(messagingEvent)
    [] handler = "receivedAccountLink" -> receivedAccountLink(messagingEvent)
    [] OTHER -> Returned(<<>>)

\* one iteration of the inner forEach: the handler chosen and what it did
OnMessagingEvent(messagingEvent, r) ==
  LET handler == Route(messagingEvent)
      res == Invoke(handler, messagingEvent, r)
  IN [handler |-> handler, threw |-> res.threw, sends |-> res.sends]

RECURSIVE MutForEachContinues(_, _, _, _)
MutForEachContinues(events, rnd, i, trace) ==
  IF i > Len(events) THEN trace
  ELSE MutForEachContinues(events, rnd, i + 1,
                           Append(trace, OnMessagingEvent(events[i], rnd[i])))

\* the events of all entries in iteration order (entry by entry)
RECURSIVE AllEvents(_)
AllEvents(entry) ==
  IF entry = <<>> THEN <<>>
  ELSE Head(entry).messaging \o AllEvents(Tail(entry))

\* the two nested forEach loops: events are handled in order until one
\* handler throws, which leaves both loops; rnd[i] is the value Math.random
\* returns while event i is handled
RECURSIVE ForEach(_, _, _, _)
ForEach(events, rnd, i, trace) ==
  IF i > Len(events) THEN trace
  ELSE LET step == OnMessagingEvent(events[i], rnd[i])
       IN IF step.threw THEN Append(trace, step)
          ELSE ForEach(events, rnd, i + 1, Append(trace, step))

MutAnyObjectIsPage(data) == TRUE

\* data.object == 'page'
IsPageSubscription(data) == data.object = <<"page">>

\* the route handler: trace has one element per event reached; status is
\* the status the handler wrote with res.sendStatus, if it wrote one
PostHandler(data, rnd) ==
  IF IsPageSubscription(data)
  THEN LET trace == ForEach(AllEvents(data.entry), rnd, 1, <<>>)
           threw == trace # <<>> /\ trace[Len(trace)].threw
       IN [trace |-> trace, threw |-> threw,
           status |-> IF threw THEN <<>> ELSE <<200>>]
  ELSE [trace |-> <<>>, threw |-> FALSE, status |-> <<>>]

RECURSIVE Calls(_)
Calls(trace) ==
  IF trace = <<>> THEN <<>> ELSE Head(trace).sends \o Calls(Tail(trace))

(***************************************************************************)
(* Requests the model receives.                                            *)
(***************************************************************************)
Tags == {"optin", "message", "delivery", "postback", "read", "account_linking"}

Keywords == {"image", "gif", "audio", "video", "file", "button", "generic",
             "receipt", "quick reply", "read receipt", "typing on",
             "typing off", "account linking"}

Senders == {"U1", "U2"}

PageId == "P"

\* texts of messages: the keywords, the empty string, a plain text, a
\* keyword in another case, and a text that is itself a fact
Texts == Keywords \cup {"", "hello", "Button", facts[1]}

Messages ==
  [is_echo : BOOLEAN, quick_reply : BOOLEAN, attachments : BOOLEAN,
   text : {<<>>} \cup {<<t>> : t \in Texts}]

Message(echo, text) ==
  [is_echo |-> echo, quick_reply |-> FALSE, attachments |-> FALSE, text |-> text]

Event(sender, tags, message) ==
  [sender |-> sender, recipient |-> <<PageId>>,
   optin |-> "optin" \in tags,
   message |-> IF "message" \in tags THEN <<message>> ELSE <<>>,
   delivery |-> "delivery" \in tags,
   postback |-> "postback" \in tags,
   read |-> "read" \in tags,
   account_linking |-> "account_linking" \in tags]

\* every event: each combination of the six fields and of the fields of
\* the message, from each sender
Events ==
  {Event(<<s>>, tags, m) : s \in Senders, tags \in SUBSET Tags, m \in Messages}

\* events of envelopes that batch several events: one with none of the six
\* fields, an optin, a plain text, a keyword, an echo and an attachment
BatchEvents ==
  {Event(<<"U1">>, {}, Message(FALSE, <<>>)),
   Event(<<"U2">>, {"optin"}, Message(FALSE, <<>>)),
   Event(<<"U1">>, {"message"}, Message(FALSE, <<"hello">>)),
   Event(<<"U2">>, {"message"}, Message(FALSE, <<"button">>)),
   Event(<<"U1">>, {"message"}, Message(TRUE, <<"image">>)),
   Event(<<"U2">>, {"message"},
         [Message(FALSE, <<>>) EXCEPT !.attachments = TRUE])}

\* the same for the requests of the whole server
ServerEvents ==
  {Event(<<"U1">>, {}, Message(FALSE, <<>>)),
   Event(<<"U2">>, {"optin"}, Message(FALSE, <<>>)),
   Event(<<"U1">>, {"message"}, Message(FALSE, <<"hello">>)),
   Event(<<"U2">>, {"message"}, Message(FALSE, <<"button">>))}

PageEntry(events) == [messaging |-> events]

\* a batch as one entry, or as one entry per event
Batches(events) ==
  UNION {UNION {{<<PageEntry(b)>>, [i \in 1..n |-> PageEntry(<<b[i]>>)]} :
                  b \in [1..n -> events]} :
           n \in 2..MaxEvents}

\* no entry, an entry without events, one event, or a batch
EntryLists(single, batched) ==
  {<<>>, <<PageEntry(<<>>)>>}
    \cup {<<PageEntry(<<e>>)>> : e \in single}
    \cup Batches(batched)

\* envelopes of a page subscription, and envelopes of another object, of
\* none, or of 'page' in another case
Bodies(single, batched) ==
  {[object |-> o, entry |-> e] :
     o \in {<<"page">>}, e \in EntryLists(single, batched)}
    \cup {[object |-> o, entry |-> e] :
            o \in {<<>>, <<"user">>, <<"Page">>},
            e \in EntryLists(batched, batched)}

PostedBody == <<1, 2>>

Header(method, digest) == method \o <<"=">> \o digest

Sha1Tag == <<"s", "h", "a", "1">>

\* a digest that differs from the right one in its last character
WrongDigest(buf) ==
  LET d == HmacSha1Hex(APP_SECRET, buf)
  IN [d EXCEPT ![Len(d)] = IF d[Len(d)] = "0" THEN "1" ELSE "0"]

NoSignature == <<>>

GoodSignature(buf) == <<Header(Sha1Tag, HmacSha1Hex(APP_SECRET, buf))>>

BadSignature(buf) == <<Header(Sha1Tag, WrongDigest(buf))>>

\* buf is the body as received and body the value JSON.parse gives for it:
\* the verifier reads only buf and the handler only body, so the two are
\* drawn independently
Requests ==
  {[signature |-> s, buf |-> PostedBody, body |-> d] :
     s \in {NoSignature, GoodSignature(PostedBody), BadSignature(PostedBody)},
     d \in Bodies(ServerEvents, ServerEvents)}

DispatchRequests ==
  {[signature |-> s, buf |-> PostedBody, body |-> d] :
     s \in {NoSignature, GoodSignature(PostedBody)},
     d \in Bodies(Events, BatchEvents)}

(***************************************************************************)
(* GET /webhook, the subscription check.  A query parameter is an optional *)
(* string; a response is its status and its body.                          *)
(***************************************************************************)
MutGetIgnoresMode(query) ==
  IF query.verify_token = <<VALIDATION_TOKEN>>
  THEN <<[status |-> 200, body |-> query.challenge]>>
  ELSE <<[status |-> 403, body |-> <<"Forbidden">>]>>

\* the route handler: the responses it writes, in order
GetHandler(query) ==
  IF query.mode = <<"subscribe">> /\ query.verify_token = <<VALIDATION_TOKEN>>
  THEN <<[status |-> 200, body |-> query.challenge]>>
  ELSE <<[status |-> 403, body |-> <<"Forbidden">>]>>

\* values of hub.mode, hub.verify_token and hub.challenge: absent, empty,
\* the expected one, and others, among them one in another case
Modes == {<<>>, <<"">>, <<"subscribe">>, <<"Subscribe">>, <<"unsubscribe">>}

Tokens == {<<>>, <<"">>, <<VALIDATION_TOKEN>>, <<"t1">>, <<"T2">>}

Challenges == {<<>>, <<"">>, <<"C1">>, <<"C2">>}

Queries == [mode : Modes, verify_token : Tokens, challenge : Challenges]

NoGet == [query |-> <<>>, responses |-> <<>>, done |-> FALSE]

(***************************************************************************)
(* The server.                                                             *)
(***************************************************************************)
NoCall == [signature |-> <<>>, buf |-> <<>>, result |-> "none"]

Init ==
  /\ alive = TRUE
  /\ served = 0
  /\ handled = <<>>
  /\ pending = <<>>
  /\ rejected = {}
  /\ vcall = NoCall
  /\ gcall = NoGet

\* the process runs, no handler is running, and the model has requests left
Listening == alive /\ handled = <<>> /\ served < MaxRequests

MutPostWebhookSharesState(req, rnd) ==
  /\ Listening
  /\ served' = served + 1
  /\ LET busy == \E n \in DOMAIN pending : pending[n] > 0
         res == IF busy THEN PostHandler([req.body EXCEPT !.entry = <<>>], <<>>)
                ELSE PostHandler(req.body, rnd)
     IN /\ handled' = <<[req |-> req, id |-> served + 1,
                         verdict |-> verifyRequestSignature(req.signature, req.buf),
                         ran |-> TRUE, trace |-> res.trace,
                         threw |-> res.threw, status |-> res.status,
                         error |-> <<>>]>>
        /\ pending' = Append(pending, Len(Calls(res.trace)))
        /\ rejected' = rejected
  /\ UNCHANGED <<alive, vcall, gcall>>

\* A POST /webhook arrives: bodyParser.json calls verifyRequestSignature on
\* the raw body; when it throws, the error goes to the error middleware and
\* the route handler is not called; otherwise the route handler runs, and
\* every Send API call it makes is started before it returns.
PostWebhook(req, rnd) ==
  /\ Listening
  /\ served' = served + 1
  /\ LET verdict == verifyRequestSignature(req.signature, req.buf)
     IN IF verdict = "throw"
        THEN /\ handled' = <<[req |-> req, id |-> served + 1, verdict |-> verdict,
                              ran |-> FALSE, trace |-> <<>>, threw |-> FALSE,
                              status |-> <<>>,
                              error |-> <<"Couldn't validate the request signature.">>]>>
             /\ pending' = Append(pending, 0)
             /\ rejected' = rejected \cup {served + 1}
        ELSE LET res == PostHandler(req.body, rnd)
             IN /\ handled' = <<[req |-> req, id |-> served + 1, verdict |-> verdict,
                                 ran |-> TRUE, trace |-> res.trace,
                                 threw |-> res.threw, status |-> res.status,
                                 error |-> IF res.threw THEN <<"TypeError">> ELSE <<>>]>>
                /\ pending' = Append(pending, Len(Calls(res.trace)))
                /\ rejected' = rejected
  /\ UNCHANGED <<alive, vcall, gcall>>

\* the request and its response objects are released
RequestDone ==
  /\ alive
  /\ handled # <<>>
  /\ handled' = <<>>
  /\ alive' = alive
  /\ UNCHANGED <<served, pending, rejected, vcall, gcall>>

\* The callback of request() for one started call.  "ok" is a 200 response
\* and "non200" another status: both only log.  "error" is a transport
\* error: response is undefined there, so response.statusCode in the
\* console.error call of line 968 throws a TypeError out of the callback,
\* an uncaught exception, and the process exits.
SendCallback(n, outcome) ==
  /\ alive
  /\ n \in DOMAIN pending
  /\ pending[n] > 0
  /\ pending' = [pending EXCEPT ![n] = @ - 1]
  /\ alive' = (outcome # "error")
  /\ UNCHANGED <<served, handled, rejected, vcall, gcall>>

Next ==
  \/ /\ Listening
     /\ \E req \in Requests :
          \E rnd \in [1..Len(AllEvents(req.body.entry)) -> RandSamples] :
            PostWebhook(req, rnd)
  \/ RequestDone
  \/ \E n \in DOMAIN pending : \E outcome \in {"ok", "non200", "error"} :
       SendCallback(n, outcome)

Spec == Init /\ [][Next]_vars

(***************************************************************************)
(* One request on every envelope of single events: the body parser, the    *)
(* verifier and the route handler as a function of the request.            *)
(***************************************************************************)
NextDispatch ==
  /\ Listening
  /\ \E req \in DispatchRequests :
       \E rnd \in [1..Len(AllEvents(req.body.entry)) -> RandSamples] :
         PostWebhook(req, rnd)

SpecDispatch == Init /\ [][NextDispatch]_vars

(***************************************************************************)
(* The server on page envelopes with malformed events: events without      *)
(* sender or without recipient, between events that are answered.          *)
(***************************************************************************)
\* a text that is answered, a message without sender and a delivery
\* without recipient, whose handlers throw, and an event with none of the
\* six fields and no sender, which is only logged
FaultEvents ==
  {Event(<<"U1">>, {"message"}, Message(FALSE, <<"hello">>)),
   Event(<<>>, {"message"}, Message(FALSE, <<"hello">>)),
   [Event(<<"U1">>, {"delivery"}, Message(FALSE, <<>>)) EXCEPT !.recipient = <<>>],
   Event(<<>>, {}, Message(FALSE, <<>>))}

\* up to MaxEvents + 1 events, in one entry or in one entry per event
FaultEntryLists ==
  UNION {UNION {{<<PageEntry(b)>>, [i \in 1..n |-> PageEntry(<<b[i]>>)]} :
                  b \in [1..n -> FaultEvents]} :
           n \in 1..(MaxEvents + 1)}

FaultRequests ==
  {[signature |-> NoSignature, buf |-> PostedBody,
    body |-> [object |-> <<"page">>, entry |-> e]] : e \in FaultEntryLists}

NextFaults ==
  \/ /\ Listening
     /\ \E req \in FaultRequests : \E r \in RandSamples :
          PostWebhook(req, [i \in 1..Len(AllEvents(req.body.entry)) |-> r])
  \/ RequestDone
  \/ \E n \in DOMAIN pending : \E outcome \in {"ok", "non200", "error"} :
       SendCallback(n, outcome)

SpecFaults == Init /\ [][NextFaults]_vars

(***************************************************************************)
(* The verifier alone, on every header and raw body of bounded sets.       *)
(***************************************************************************)
HexStrings(n) == {[i \in 1..n |-> HexChars[d[i]]] : d \in [1..n -> 1..16]}

\* method tags, among them the empty one
MethodTags == {Sha1Tag, <<"m", "d", "5">>, <<>>}

RawBodies == {<<>>, <<1>>, <<1, 2>>, <<2, 1>>, <<2, 1, 3>>}

\* headers method=hexDigest with every digest of the right length, the same
\* with the digest in upper case or cut short, and headers without '='
\* or with a second one
VerifyHeaders ==
  {<<>>, << <<>> >>}
    \cup {<<Header(m, d)>> : m \in MethodTags, d \in HexStrings(DigestLen)}
    \cup {<<Header(m, d)>> : m \in MethodTags, d \in HexStrings(DigestLen - 1)}
    \cup {<<Header(m, <<"A">> \o d)>> : m \in MethodTags,
                                        d \in HexStrings(DigestLen - 1)}
    \cup {<<m>> : m \in MethodTags \ {<<>>}}
    \cup {<<Header(Header(m, d), d)>> : m \in {Sha1Tag}, d \in HexStrings(DigestLen)}

InitVerify ==
  /\ alive = TRUE
  /\ served = 0
  /\ handled = <<>>
  /\ pending = <<>>
  /\ rejected = {}
  /\ vcall \in {[signature |-> s, buf |-> b, result |-> "called"] :
                  s \in VerifyHeaders, b \in RawBodies}
  /\ gcall = NoGet

VerifyCall ==
  /\ vcall.result = "called"
  /\ vcall' = [vcall EXCEPT !.result =
                 verifyRequestSignature(vcall.signature, vcall.buf)]
  /\ UNCHANGED <<alive, served, handled, pending, rejected, gcall>>

NextVerify == VerifyCall

SpecVerify == InitVerify /\ [][NextVerify]_vars

(***************************************************************************)
(* GET /webhook alone, on every query of bounded sets.                     *)
(***************************************************************************)
InitGet ==
  /\ alive = TRUE
  /\ served = 0
  /\ handled = <<>>
  /\ pending = <<>>
  /\ rejected = {}
  /\ vcall = NoCall
  /\ gcall \in {[query |-> <<q>>, responses |-> <<>>, done |-> FALSE] :
                  q \in Queries}

GetWebhook ==
  /\ alive
  /\ gcall.query # <<>>
  /\ ~gcall.done
  /\ gcall' = [gcall EXCEPT !.responses = GetHandler(gcall.query[1]),
                            !.done = TRUE]
  /\ UNCHANGED <<alive, served, handled, pending, rejected, vcall>>

NextGet == GetWebhook

SpecGet == InitGet /\ [][NextGet]_vars

(***************************************************************************)
(* Vocabulary of the properties.                                           *)
(***************************************************************************)
\* a request has been handled and its record is still there
Handled == handled # <<>>

\* the events of the handled request's envelope, in iteration order
HandledEvents == AllEvents(handled[1].req.body.entry)

\* the handled request passed the verifier and is a page subscription
Dispatched ==
  /\ Handled
  /\ handled[1].ran
  /\ handled[1].req.body.object = <<"page">>

\* a header string with exactly one '='
WellFormedHeader(h) == Cardinality({k \in 1..Len(h) : h[k] = "="}) = 1

\* the characters after the '=' of a well-formed header
HeaderDigest(h) ==
  LET k == CHOOSE j \in 1..Len(h) : h[j] = "="
  IN SubSeq(h, k + 1, Len(h))

\* the header is present and its digest part is not the digest of buf
Mismatch(req) ==
  /\ ~Falsy(req.signature)
  /\ WellFormedHeader(req.signature[1])
  /\ HeaderDigest(req.signature[1]) # HmacSha1Hex(APP_SECRET, req.buf)

TagOrder ==
  <<"optin", "message", "delivery", "postback", "read", "account_linking">>

HandlerOf ==
  [optin |-> "receivedAuthentication", message |-> "receivedMessage",
   delivery |-> "receivedDeliveryConfirmation", postback |-> "receivedPostback",
   read |-> "receivedMessageRead", account_linking |-> "receivedAccountLink"]

Present(e, tag) ==
  CASE tag = "optin" -> e.optin
    [] tag = "message" -> e.message # <<>>
    [] tag = "delivery" -> e.delivery
    [] tag = "postback" -> e.postback
    [] tag = "read" -> e.read
    [] tag = "account_linking" -> e.account_linking

NoneOfSix(e) == \A k \in 1..Len(TagOrder) : ~Present(e, TagOrder[k])

\* the handler of the earliest present field, "unknown" when there is none
FirstPresent(e) ==
  IF NoneOfSix(e) THEN "unknown"
  ELSE LET k == CHOOSE j \in 1..Len(TagOrder) :
                  /\ Present(e, TagOrder[j])
                  /\ \A l \in 1..(j - 1) : ~Present(e, TagOrder[l])
       IN HandlerOf[TagOrder[k]]

\* the event goes to the message handler, and its message
ToMessageHandler(e) == FirstPresent(e) = "receivedMessage"

BuilderFor(keyword) ==
  CASE keyword = "image" -> "sendImageMessage"
    [] keyword = "gif" -> "sendGifMessage"
    [] keyword = "audio" -> "sendAudioMessage"
    [] keyword = "video" -> "sendVideoMessage"
    [] keyword = "file" -> "sendFileMessage"
    [] keyword = "button" -> "sendButtonMessage"
    [] keyword = "generic" -> "sendGenericMessage"
    [] keyword = "receipt" -> "sendReceiptMessage"
    [] keyword = "quick reply" -> "sendQuickReply"
    [] keyword = "read receipt" -> "sendReadReceipt"
    [] keyword = "typing on" -> "sendTypingOn"
    [] keyword = "typing off" -> "sendTypingOff"
    [] keyword = "account linking" -> "sendAccountLinking"

FactTable == {facts[k] : k \in 1..Len(facts)}

AttachmentAcknowledgment == "Message with attachment received"

QuickReplyAcknowledgment == "Quick reply tapped"

\* a step in which a POST /webhook is handled
RequestStep == served' = served + 1 /\ handled' # <<>>

\* a step in which the completion callback of one Send API call runs
CallbackStep == Len(pending') = Len(pending) /\ pending' # pending

\* the event has one of the six fields and lacks sender or recipient, which
\* every handler reads first
Malformed(e) == ~NoneOfSix(e) /\ (e.sender = <<>> \/ e.recipient = <<>>)

\* what the dispatcher does with event e when e is the only event of the
\* envelope and Math.random returns r
Alone(e, r) ==
  PostHandler([object |-> <<"page">>, entry |-> <<PageEntry(<<e>>)>>],
              <<r>>).trace[1]

\* handlers of the events that are answered with a text, and of those that
\* are only logged
TextHandlers == {"receivedAuthentication", "receivedPostback"}

SilentHandlers ==
  {"receivedDeliveryConfirmation", "receivedMessageRead", "receivedAccountLink",
   "unknown"}

(***************************************************************************)
(* Properties.                                                             *)
(***************************************************************************)

\* C1: when a POST /webhook carries an x-hub-signature header whose digest
\* part is not the HMAC of the raw body, handling it raises an error, the
\* route handler does not run, no Send API call is started, and the process
\* is still running afterwards.
C1_MismatchAborts ==
  [][(handled = <<>> /\ handled' # <<>> /\ Mismatch(handled'[1].req)) =>
       /\ handled'[1].verdict = "throw"
       /\ handled'[1].error # <<>>
       /\ ~handled'[1].ran
       /\ handled'[1].trace = <<>>
       /\ handled'[1].status = <<>>
       /\ pending' = Append(pending, 0)
       /\ alive /\ alive']_vars

\* C1 witness: a request that follows a rejected one is dispatched,
\* answered with 200 and starts a Send API call.
C1_Witness ==
  /\ Handled
  /\ (handled[1].id - 1) \in rejected
  /\ handled[1].status = <<200>>
  /\ Calls(handled[1].trace) # <<>>

\* C2: a POST /webhook without an x-hub-signature header is not rejected:
\* the route handler runs on the body and does what it does for that body,
\* as it does when the signature is valid.
C2_MissingSignatureDispatches ==
  (Handled /\ Falsy(handled[1].req.signature)) =>
    /\ handled[1].verdict = "logged"
    /\ handled[1].error = <<>>
    /\ handled[1].ran
    /\ verifyRequestSignature(GoodSignature(handled[1].req.buf),
                              handled[1].req.buf) = "pass"
    /\ \E rnd \in [1..Len(HandledEvents) -> RandSamples] :
         LET res == PostHandler(handled[1].req.body, rnd)
         IN /\ handled[1].trace = res.trace
            /\ handled[1].status = res.status
            /\ handled[1].threw = res.threw

\* C2 witness: an unsigned batch of two events, both answered.
C2_Witness ==
  /\ Handled
  /\ handled[1].req.signature = <<>>
  /\ handled[1].status = <<200>>
  /\ Len(Calls(handled[1].trace)) = 2

\* C3: for a header method=hexDigest, the verifier accepts exactly when
\* hexDigest is the HMAC hex digest of the raw body under the app secret,
\* and the same header with any other method tag gets the same answer.
C3_AcceptsExactlyTheDigest ==
  (/\ vcall.result \notin {"none", "called"}
   /\ ~Falsy(vcall.signature)
   /\ WellFormedHeader(vcall.signature[1])) =>
    LET digest == HeaderDigest(vcall.signature[1])
    IN /\ vcall.result \in {"pass", "throw"}
       /\ (vcall.result = "pass") <=>
            (digest = HmacSha1Hex(APP_SECRET, vcall.buf))
       /\ \A m \in MethodTags :
            verifyRequestSignature(<<Header(m, digest)>>, vcall.buf) = vcall.result

\* C3 witness: a header tagged md5 with the right digest is accepted.
C3_Witness ==
  /\ vcall.result = "pass"
  /\ vcall.buf = <<2, 1, 3>>
  /\ vcall.signature =
       <<Header(<<"m", "d", "5">>, HmacSha1Hex(APP_SECRET, <<2, 1, 3>>))>>

\* C4: when the envelope's object is not "page", no event is dispatched, no
\* Send API call is started and no status is written.
C4_OtherObjectIgnored ==
  (Handled /\ handled[1].req.body.object # <<"page">>) =>
    /\ handled[1].trace = <<>>
    /\ handled[1].status = <<>>
    /\ handled[1].error = <<>> \/ ~handled[1].ran
    /\ pending[handled[1].id] = 0

\* C4 witness: the handler ran on an envelope of object "Page" whose two
\* events would both be answered in a page envelope.
C4_Witness ==
  /\ Handled
  /\ handled[1].ran
  /\ handled[1].req.body.object = <<"Page">>
  /\ Len(HandledEvents) = 2
  /\ \A i \in 1..2 : OnMessagingEvent(HandledEvents[i], 0).sends # <<>>

\* C5: each event of a dispatched page envelope goes to the handler of its
\* first present field in the order optin, message, delivery, postback,
\* read, account_linking, and to none when it has none of them.
C5_RoutedByFirstPresentField ==
  Dispatched =>
    /\ Len(handled[1].trace) = Len(HandledEvents)
    /\ \A i \in 1..Len(HandledEvents) :
         handled[1].trace[i].handler = FirstPresent(HandledEvents[i])

\* C5 witness: an event with optin, message and account_linking went to
\* the optin handler.
C5_Witness ==
  /\ Dispatched
  /\ \E i \in 1..Len(HandledEvents) :
       /\ HandledEvents[i].optin
       /\ HandledEvents[i].message # <<>>
       /\ HandledEvents[i].account_linking
       /\ handled[1].trace[i].handler = "receivedAuthentication"

\* C6: an event with none of the six fields raises nothing and starts no
\* Send API call; the other events of the envelope are handled as they are
\* without it, and the request is answered with 200.
C6_UnknownEventDropped ==
  Dispatched =>
    \A i \in 1..Len(HandledEvents) :
      NoneOfSix(HandledEvents[i]) =>
        /\ Len(handled[1].trace) = Len(HandledEvents)
        /\ handled[1].trace[i].handler = "unknown"
        /\ ~handled[1].trace[i].threw
        /\ handled[1].trace[i].sends = <<>>
        /\ handled[1].status = <<200>>
        /\ handled[1].error = <<>>
        /\ \A j \in 1..Len(HandledEvents) :
             \E r \in RandSamples :
               LET alone == PostHandler(
                              [object |-> <<"page">>,
                               entry |-> <<PageEntry(<<HandledEvents[j]>>)>>],
                              <<r>>)
               IN handled[1].trace[j] = alone.trace[1]

\* C6 witness: an entry whose first event has none of the six fields and
\* whose second event is answered.
C6_Witness ==
  /\ Dispatched
  /\ Len(handled[1].req.body.entry) = 1
  /\ Len(HandledEvents) = 2
  /\ NoneOfSix(HandledEvents[1])
  /\ handled[1].trace[2].sends # <<>>
  /\ handled[1].status = <<200>>

C8_Original ==
  Dispatched =>
    \A i \in 1..Len(handled[1].trace) :
      (/\ ToMessageHandler(HandledEvents[i])
       /\ HandledEvents[i].message[1].text # <<>>
       /\ HandledEvents[i].message[1].text[1] \in Keywords) =>
        /\ Len(handled[1].trace[i].sends) = 1
        /\ handled[1].trace[i].sends[1].builder =
             BuilderFor(HandledEvents[i].message[1].text[1])

\* C8 as amended: every event handled by the message handler whose message
\* is not an echo, has no quick_reply and has one of the thirteen keywords
\* as text gets exactly the call of the builder named after the keyword.
C8_KeywordSelectsBuilder ==
  Dispatched =>
    \A i \in 1..Len(handled[1].trace) :
      (/\ ToMessageHandler(HandledEvents[i])
       /\ ~HandledEvents[i].message[1].is_echo
       /\ ~HandledEvents[i].message[1].quick_reply
       /\ HandledEvents[i].message[1].text # <<>>
       /\ HandledEvents[i].message[1].text[1] \in Keywords) =>
        /\ Len(handled[1].trace[i].sends) = 1
        /\ handled[1].trace[i].sends[1].builder =
             BuilderFor(HandledEvents[i].message[1].text[1])
        /\ handled[1].trace[i].sends[1].recipient = HandledEvents[i].sender[1]

\* C8 witness: the text "gif", with attachments, got the gif builder.
C8_Witness ==
  /\ Dispatched
  /\ \E i \in 1..Len(handled[1].trace) :
       /\ ToMessageHandler(HandledEvents[i])
       /\ HandledEvents[i].message[1] =
            [is_echo |-> FALSE, quick_reply |-> FALSE, attachments |-> TRUE,
             text |-> <<"gif">>]
       /\ Len(handled[1].trace[i].sends) = 1
       /\ handled[1].trace[i].sends[1].builder = "sendGifMessage"

C10_FixedAcknowledgment ==
  Dispatched =>
    \A i \in 1..Len(handled[1].trace) :
      (/\ ToMessageHandler(HandledEvents[i])
       /\ ~HandledEvents[i].message[1].is_echo
       /\ ~HandledEvents[i].message[1].quick_reply
       /\ HandledEvents[i].message[1].text = <<>>
       /\ HandledEvents[i].message[1].attachments) =>
        /\ Len(handled[1].trace[i].sends) = 1
        /\ handled[1].trace[i].sends[1].kind = "text"
        /\ handled[1].trace[i].sends[1].detail = <<AttachmentAcknowledgment>>

\* C13 as stated: a GET /webhook gets exactly one response, 200 with the
\* challenge as body when hub.verify_token is the configured token, and 403
\* otherwise.
C13_Original ==
  gcall.done =>
    /\ Len(gcall.responses) = 1
    /\ IF gcall.query[1].verify_token = <<VALIDATION_TOKEN>>
       THEN /\ gcall.responses[1].status = 200
            /\ gcall.responses[1].body = gcall.query[1].challenge
       ELSE gcall.responses[1].status = 403

\* C13: a GET /webhook gets exactly one response, 200 with the challenge as
\* body when hub.mode is 'subscribe' and hub.verify_token is the configured
\* token, and 403 otherwise.
C13_ChallengeOrForbidden ==
  gcall.done =>
    /\ Len(gcall.responses) = 1
    /\ IF /\ gcall.query[1].mode = <<"subscribe">>
          /\ gcall.query[1].verify_token = <<VALIDATION_TOKEN>>
       THEN /\ gcall.responses[1].status = 200
            /\ gcall.responses[1].body = gcall.query[1].challenge
       ELSE gcall.responses[1].status = 403

\* C13 witness: the scenario of the interface description, challenge C1
\* returned for token T1.
C13_Witness ==
  /\ gcall.done
  /\ gcall.query = <<[mode |-> <<"subscribe">>,
                      verify_token |-> <<VALIDATION_TOKEN>>,
                      challenge |-> <<"C1">>]>>
  /\ gcall.responses = <<[status |-> 200, body |-> <<"C1">>]>>

\* C15: no dispatched event starts more than one Send API call, so the
\* calls of an envelope are at most as many as its events; an optin or a
\* postback event starts exactly one, a text message, and a delivery, read,
\* account_linking or unknown event starts none.
C15_AtMostOneCallPerEvent ==
  Dispatched =>
    /\ Len(Calls(handled[1].trace)) <= Len(HandledEvents)
    /\ \A i \in 1..Len(handled[1].trace) :
         LET sends == handled[1].trace[i].sends
             handler == FirstPresent(HandledEvents[i])
         IN /\ Len(sends) <= 1
            /\ handler \in TextHandlers =>
                 /\ Len(sends) = 1
                 /\ sends[1].kind = "text"
                 /\ sends[1].builder = "sendTextMessage"
            /\ handler \in SilentHandlers => sends = <<>>

\* C15 witness: a postback event that also has read and account_linking
\* got one text message.
C15_Witness ==
  /\ Dispatched
  /\ \E i \in 1..Len(handled[1].trace) :
       /\ FirstPresent(HandledEvents[i]) = "receivedPostback"
       /\ HandledEvents[i].read
       /\ HandledEvents[i].account_linking
       /\ Len(handled[1].trace[i].sends) = 1
       /\ handled[1].trace[i].sends[1].kind = "text"

\* C16: a message that is not an echo and has a quick_reply gets exactly
\* one text message, the acknowledgment of the quick reply, whatever its
\* text and its attachments are.
C16_QuickReplyAcknowledged ==
  Dispatched =>
    \A i \in 1..Len(handled[1].trace) :
      (/\ ToMessageHandler(HandledEvents[i])
       /\ ~HandledEvents[i].message[1].is_echo
       /\ HandledEvents[i].message[1].quick_reply) =>
        /\ Len(handled[1].trace[i].sends) = 1
        /\ handled[1].trace[i].sends[1].kind = "text"
        /\ handled[1].trace[i].sends[1].builder = "sendTextMessage"
        /\ handled[1].trace[i].sends[1].detail = <<QuickReplyAcknowledgment>>

\* C17: every Send API call started for an event is addressed to the
\* sender of that event, never to its recipient.
C17_RepliesGoToTheSender ==
  Dispatched =>
    \A i \in 1..Len(handled[1].trace) :
      \A k \in 1..Len(handled[1].trace[i].sends) :
        /\ <<handled[1].trace[i].sends[k].recipient>> = HandledEvents[i].sender
        /\ <<handled[1].trace[i].sends[k].recipient>> # HandledEvents[i].recipient

\* C17 witness: an envelope with events of two senders, each answered with
\* a call addressed to its own sender.
C17_Witness ==
  /\ Dispatched
  /\ \E i, j \in 1..Len(handled[1].trace) :
       /\ HandledEvents[i].sender = <<"U1">>
       /\ HandledEvents[j].sender = <<"U2">>
       /\ Len(handled[1].trace[i].sends) = 1
       /\ Len(handled[1].trace[j].sends) = 1
       /\ handled[1].trace[i].sends[1].recipient = "U1"
       /\ handled[1].trace[j].sends[1].recipient = "U2"

\* C11: every POST /webhook whose envelope is a page subscription and that
\* reaches the route handler is answered with 200, exactly once, in the step
\* that handles it, when every Send API call started for it is still in
\* flight.
C11_AcknowledgedAtOnce ==
  [][(/\ RequestStep
      /\ handled'[1].ran
      /\ handled'[1].req.body.object = <<"page">>) =>
       /\ handled'[1].status = <<200>>
       /\ pending' = Append(pending, Len(Calls(handled'[1].trace)))]_vars

\* C12: the completion callback of a Send API call, whatever the outcome of
\* the call, starts no call, leaves the handled request and its status as
\* they are, and leaves the process running.
C12_FailureOnlyLogged ==
  [][CallbackStep =>
       /\ alive'
       /\ handled' = handled
       /\ served' = served
       /\ \A n \in DOMAIN pending : pending'[n] <= pending[n]]_vars

C18_ThrowEndsDispatch ==
  [][(/\ RequestStep
      /\ handled'[1].ran
      /\ handled'[1].req.body.object = <<"page">>
      /\ \E k \in 1..Len(AllEvents(handled'[1].req.body.entry)) :
           Malformed(AllEvents(handled'[1].req.body.entry)[k])) =>
       LET events == AllEvents(handled'[1].req.body.entry)
           first == CHOOSE k \in 1..Len(events) :
                      /\ Malformed(events[k])
                      /\ \A l \in 1..(k - 1) : ~Malformed(events[l])
           trace == handled'[1].trace
       IN /\ Len(trace) = first
          /\ trace[first].threw
          /\ trace[first].sends = <<>>
          /\ \A i \in 1..(first - 1) :
               \E r \in RandSamples : trace[i] = Alone(events[i], r)
          /\ handled'[1].threw
          /\ handled'[1].status = <<>>
          /\ pending' = Append(pending, Len(Calls(trace)))
          /\ alive']_vars

\* C18 witness: an envelope of three entries with one event each; the
\* first event was answered, the handler of the second threw, the third
\* was not dispatched, and the callback of the first event's call has run.
C18_Witness ==
  /\ Handled
  /\ handled[1].threw
  /\ Len(handled[1].req.body.entry) = 3
  /\ Len(handled[1].trace) = 2
  /\ Len(handled[1].trace[1].sends) = 1
  /\ handled[1].status = <<>>
  /\ pending[handled[1].id] = 0
  /\ alive

====
